---- MODULE Spec2Model ----
(***************************************************************************)
(* Model of qrek's calendar conversion engine: Julian Date conversion      *)
(* (src/astro/julian.rs), the solar-term and conjunction locators, the     *)
(* Tempo calendar assembler and the rokuyo derivation (src/tempo.rs).      *)
(*                                                                         *)
(* Number representations                                                  *)
(*  - In the conversion round trip an f64 Julian Date is the pair          *)
(*    (mjd, frac): the integer Modified Julian Day and the day fraction in *)
(*    units of 2^-31 day, which is the spacing of f64 values in            *)
(*    [2^21, 2^22), the range that holds every JD of the years 1030..6770. *)
(*  - In the locators and the assembler a Julian Date is the integer       *)
(*    number of minutes since MJD 0 (JD 2400000.5), and a longitude is an  *)
(*    integer number of millidegrees.                                      *)
(***************************************************************************)
EXTENDS Integers, Sequences, FiniteSets

\* ------------------------------------------------------------------------
\* Bounds of the model
\* ------------------------------------------------------------------------
\* Years after each base year whose date-times enter the round trip.
YearSpan == 0
\* Greatest day of the month (besides the month's last days) in the round trip.
MaxSampleDay == 2
\* Input dates of from_gregory_date: NumDays consecutive days from FirstDate.
NumDays == 400
\* Ephemerides of the family in use: phases 0..NumPhases-1.
NumPhases == 3
\* Loops without a cap in the code are capped in the model.
MaxSekkis == 34
MaxSakus == 22
MaxSekkiPasses == 8
\* Greatest day of a Tempo date given to rokuyo().
MaxTempoDay == 30

VARIABLES
    \* TempoDate::from_gregory_date
    pc,           \* position in from_gregory_date
    jst_date,     \* the input date [year, month, day]
    moon_phase,   \* which ephemeris of the family is in use
    sekkis,       \* collected solar terms, records [jd, l]
    last_sekki,
    sakus,        \* collected conjunctions (JD minutes)
    last_saku,
    chukis,       \* the terms of sekkis that number the months
    tempo_months, \* records [year, leap_month, month, day, jd]
    idx,          \* index of the loop over tempo_months that is running
    tempo_date,   \* the result
    \* calculate_leading_24sekki and calculate_leading_saku
    lc,           \* the locator running: "idle", "sekki", "saku"
    lc_jd_now,
    lc_jd,
    lc_delta_t,
    lc_iter_count,
    lc_l_sun0,
    lc_passes,       \* passes of the locator's loop made in this call
    lc_restarts,     \* times jd was reset to jd_now - 26.0 in this call
    lc_stepped,      \* jd as the last refinement step (jd -= delta_t) left it
    \* round trip of the Julian Date conversions
    jl_pc,        \* "in", "jd", "out"
    jl_in,        \* the date-time d given to to_julian_date
    jl_jd,        \* to_julian_date(d)
    jl_out,       \* from_julian_date(to_julian_date(d))
    \* TempoDate::rokuyo on two Tempo dates
    rk_pc,        \* "in", "second", "out"
    rk_a,
    rk_b,
    rk_ra,        \* rokuyo() of rk_a
    rk_rb         \* rokuyo() of rk_b

cal_vars == <<pc, jst_date, moon_phase, sekkis, last_sekki, sakus, last_saku,
              chukis, tempo_months, idx, tempo_date>>
loc_vars == <<lc, lc_jd_now, lc_jd, lc_delta_t, lc_iter_count, lc_l_sun0, lc_passes, lc_restarts,
              lc_stepped>>
jl_vars == <<jl_pc, jl_in, jl_jd, jl_out>>
rk_vars == <<rk_pc, rk_a, rk_b, rk_ra, rk_rb>>
vars == <<cal_vars, loc_vars, jl_vars, rk_vars>>

\* ------------------------------------------------------------------------
\* Helpers
\* ------------------------------------------------------------------------
Abs(x) == IF x < 0 THEN -x ELSE x

Pow2(k) == IF k = 0 THEN 1 ELSE
           IF k = 4 THEN 16 ELSE
           IF k = 12 THEN 4096 ELSE
           IF k = 14 THEN 16384 ELSE
           IF k = 16 THEN 65536 ELSE 16777216

\* chrono's calendar: the dates a DateTime can hold.
IsLeapYear(y) == (y % 4 = 0 /\ y % 100 # 0) \/ y % 400 = 0

DaysInMonth(y, m) ==
    IF m = 2 THEN (IF IsLeapYear(y) THEN 29 ELSE 28)
    ELSE IF m \in {4, 6, 9, 11} THEN 30 ELSE 31

\* ------------------------------------------------------------------------
\* src/astro/julian.rs
\* ------------------------------------------------------------------------
\* Integer part of to_julian_date: the Modified Julian Day of a civil date.
\* y * 365.25, y / 400.0, y / 100.0 and (m - 2) * 30.59 are floored.
MjdOfDate(year, month, day) ==
    LET y == IF month <= 2 THEN year - 1 ELSE year
        m == IF month <= 2 THEN month + 12 ELSE month
    IN  (y * 1461) \div 4 + y \div 400 - y \div 100
        + ((m - 2) * 3059) \div 100
        + day - 678912

\* hour/24 + minute/1440 + second/86400 added to mjd + 2400000.5: the f64
\* result is the multiple of 2^-31 nearest to S/86400 (S seconds of the day),
\* i.e. S * 2^24 / 675 rounded to nearest.
TimeToFrac(hour, minute, second) ==
    LET S  == hour * 3600 + minute * 60 + second
        q  == S \div 675
        r  == S % 675
        q1 == (r * 4096) \div 675
        r1 == (r * 4096) % 675
        q2 == (r1 * 4096) \div 675
        r2 == (r1 * 4096) % 675
    IN  q * 16777216 + q1 * 4096 + q2 + (IF 2 * r2 > 675 THEN 1 ELSE 0)

to_julian_date(dt) ==
    [mjd  |-> MjdOfDate(dt.year, dt.month, dt.day),
     frac |-> TimeToFrac(dt.hour, dt.minute, dt.second)]

\* (time * k) as u32 for k = odd * 2^(31 - shift): floor(frac * odd / 2^shift).
ScaleFrac(frac, odd, shift) ==
    ((frac \div 4096) * odd + ((frac % 4096) * odd) \div 4096)
        \div Pow2(shift - 12)

\* Civil date of the day number n = (mjd + 678881.0) as i32.
DateOfDayNumber(n) ==
    LET a  == n * 4 + 3 + (((((n + 1) * 4) \div 146097 + 1) * 3) \div 4) * 4
        b  == ((a % 1461) \div 4) * 5 + 2
        y0 == a \div 1461
        m0 == b \div 153 + 3
        d  == (b % 153) \div 5 + 1
    IN  [year  |-> IF m0 > 12 THEN y0 + 1 ELSE y0,
         month |-> IF m0 > 12 THEN m0 - 12 ELSE m0,
         day   |-> d]

from_julian_date(jd) ==
    LET date == DateOfDayNumber(jd.mjd + 678881)
    IN  [year   |-> date.year,
         month  |-> date.month,
         day    |-> date.day,
         hour   |-> ScaleFrac(jd.frac, 3, 28),
         minute |-> ScaleFrac(jd.frac, 45, 26) % 60,
         second |-> ScaleFrac(jd.frac, 675, 24) % 60]

\* ------------------------------------------------------------------------
\* Fixed-point forms of the conversions used by src/tempo.rs: a JD is a
\* number of minutes since MJD 0, 0.375 day is 540 minutes.
\* ------------------------------------------------------------------------
\* to_julian_date(&date.and_hms(0, 0, 0)) of a UTC date.
JdOfMidnight(date) == MjdOfDate(date.year, date.month, date.day) * 1440

\* from_julian_date(jd).date()
DateOfJd(jd) == DateOfDayNumber(jd \div 1440 + 678881)

\* Day number of from_julian_date(jd + 0.375).date(): dates are compared
\* through it.
JstDay(jd) == (jd + 540) \div 1440

\* n / q rounded to the nearest integer, halves away from zero.
RoundDiv(n, q) ==
    IF n >= 0 THEN (2 * n + q) \div (2 * q)
    ELSE -((q - 2 * n) \div (2 * q))

\* ------------------------------------------------------------------------
\* Ephemeris provider (astro::longitude::jcg78): mean motions.  The Sun's
\* longitude grows by 360 degrees per tropical year from an equinox, the
\* Moon's elongation by 360 degrees per synodic month from a new moon.
\* ------------------------------------------------------------------------
TropicalYearMin == 525949
SynodicMonthMin == 42524
\* 2023-03-20 21:24 UTC, a vernal equinox
SunEpoch == 86434404
\* 2023-02-20 07:06 UTC, a new moon
MoonEpoch == 86393226
\* The ephemerides of the family differ in the new moon's instant.
PhaseStepMin == 10440

\* x / period of a turn, in millidegrees, rounded down.
TurnFraction(x, period) ==
    ((x * 360) \div period) * 1000 + (((x * 360) % period) * 1000) \div period

sun_longitude(jd) ==
    TurnFraction((jd - SunEpoch) % TropicalYearMin, TropicalYearMin)

Elongation(jd, phase) ==
    TurnFraction((jd - MoonEpoch - phase * PhaseStepMin) % SynodicMonthMin,
                 SynodicMonthMin)

moon_longitude(jd, phase) ==
    (sun_longitude(jd) + Elongation(jd, phase)) % 360000

\* ------------------------------------------------------------------------
\* src/tempo.rs: the locators
\* ------------------------------------------------------------------------
\* delta_t.abs() > (1.0 / 86400.0): 1/86400 day is 1/60 minute
NotConverged(delta_t) == Abs(delta_t) * 60 > 1

\* delta_l * 365.2 / 360.0 days: 525888 / 360000 = 913 / 625 minutes per
\* millidegree.
SekkiCorrection(delta_l) == RoundDiv(delta_l * 913, 625)

\* One pass of the loop of calculate_leading_24sekki.
SekkiBody(jd, l_sun0, l_sun) ==
    LET x == l_sun - l_sun0
        delta_l == IF x > 180000 THEN x - 360000
                   ELSE IF x < -180000 THEN x + 360000
                   ELSE x
        delta_t == SekkiCorrection(delta_l)
    IN  [jd |-> jd - delta_t, delta_t |-> delta_t]

\* delta_l * 29.530589 / 360.0 days: 42524 / 360000 = 10631 / 90000 minutes
\* per millidegree.
SakuCorrection(delta_l) ==
    LET a == Abs(delta_l)
        t == (a \div 90000) * 10631 + RoundDiv((a % 90000) * 10631, 90000)
    IN  IF delta_l >= 0 THEN t ELSE -t

\* delta_l of one pass of the loop of calculate_leading_saku.
SakuDelta(iter_count, l_sun, l_moon) ==
    LET d0 == l_moon - l_sun
        d1 == IF iter_count = 0 /\ d0 < 0 THEN d0 % 360000 ELSE d0
        d2 == IF l_sun >= 0 /\ l_sun < 20000 /\ l_moon >= 300000
              THEN 360000 - (d1 % 360000) ELSE d1
    IN  IF Abs(d2) > 40000 THEN d2 % 360000 ELSE d2

SakuBodyRestartAgain(jd_now, jd, iter_count, l_sun, l_moon) ==
    LET delta_t == SakuCorrection(SakuDelta(iter_count, l_sun, l_moon))
        stepped == jd - delta_t
    IN  IF iter_count >= 30
        THEN [failed |-> TRUE, restarted |-> FALSE,
              jd |-> stepped, stepped |-> stepped,
              delta_t |-> delta_t, iter_count |-> iter_count]
        ELSE [failed |-> FALSE, restarted |-> (iter_count >= 15),
              jd |-> IF iter_count >= 15 THEN jd_now - 26 * 1440 ELSE stepped,
              stepped |-> stepped,
              delta_t |-> delta_t, iter_count |-> iter_count + 1]

\* One pass of the loop of calculate_leading_saku: the refinement step, then
\* the iteration cap and the restart.
SakuBody(jd_now, jd, iter_count, l_sun, l_moon) ==
    LET delta_t == SakuCorrection(SakuDelta(iter_count, l_sun, l_moon))
        stepped == jd - delta_t
    IN  IF iter_count >= 30
        THEN [failed |-> TRUE, restarted |-> FALSE,
              jd |-> stepped, stepped |-> stepped,
              delta_t |-> delta_t, iter_count |-> iter_count]
        ELSE [failed |-> FALSE, restarted |-> (iter_count = 15),
              jd |-> IF iter_count = 15 THEN jd_now - 26 * 1440 ELSE stepped,
              stepped |-> stepped,
              delta_t |-> delta_t, iter_count |-> iter_count + 1]

\* ------------------------------------------------------------------------
\* src/tempo.rs: TempoDate::from_gregory_date
\* ------------------------------------------------------------------------
\* The zone of the input date: "+09:00"; naive_utc() subtracts it.
TzOffsetMin == 540

\* let jd = to_julian_date(&jst_date.and_hms(0, 0, 0));
InputJd(date) == JdOfMidnight(date) - TzOffsetMin

\* let jd_date = to_julian_date(&from_julian_date(jd + 0.375).date().and_hms(0, 0, 0));
InputJdDate(date) == JdOfMidnight(DateOfJd(InputJd(date) + 540))

\* 1-b: calculate_leading_24sekki(last_sekki.0 - 13.0)
PrevSekkiGuess(sekki) == sekki.jd - 13 * 1440

NextSekkiGuessLate(sekki) == sekki.jd + 31 * 1440

\* 1-c: calculate_leading_24sekki(last_sekki.0 + 18.0)
NextSekkiGuess(sekki) == sekki.jd + 18 * 1440

\* last_sekki.1 as usize / 15
SekkiIndex(sekki) == (sekki.l \div 1000) \div 15

DateBefore(a, b) ==
    \/ a.year < b.year
    \/ a.year = b.year /\ a.month < b.month
    \/ a.year = b.year /\ a.month = b.month /\ a.day < b.day

\* (saku_start..saku_end).contains(&chuki_date)
DateInRange(start, end, date) == ~DateBefore(date, start) /\ DateBefore(date, end)

ChukisEveryTerm(ss) == SelectSeq(ss, LAMBDA x : (x.l \div 1000) % 15 = 0)

\* sekkis.iter().filter(|x| x.1 as usize % 30 == 0)
Chukis(ss) == SelectSeq(ss, LAMBDA x : (x.l \div 1000) % 30 = 0)

\* tempo.month of a month holding the chuki of longitude l
MonthOfChuki(l) ==
    LET k == (l \div 1000) \div 30
    IN  IF k = 0 THEN 2
        ELSE IF k = 3 THEN 5
        ELSE IF k = 6 THEN 8
        ELSE IF k = 9 THEN 11
        ELSE ((k + 1) % 12) + 1

\* TempoDate::default()
DefaultTempoDate ==
    [year |-> 1, leap_month |-> FALSE, month |-> 1, day |-> 1, jd |-> 0]

\* The body of the loop over sakus.windows(2): the month of one window.
TempoMonthOf(saku0, saku1, chuki_list) ==
    LET saku_start == DateOfJd(saku0 + 540)
        saku_end   == DateOfJd(saku1 + 540)
        found == {i \in 1..Len(chuki_list) :
                     DateInRange(saku_start, saku_end, DateOfJd(chuki_list[i].jd + 540))}
    IN  IF found # {}
        THEN LET first == CHOOSE i \in found : \A j \in found : i <= j
             IN  [DefaultTempoDate EXCEPT !.month = MonthOfChuki(chuki_list[first].l),
                                          !.leap_month = FALSE,
                                          !.jd = JdOfMidnight(saku_start)]
        ELSE [DefaultTempoDate EXCEPT !.month = 0,
                                      !.leap_month = TRUE,
                                      !.jd = JdOfMidnight(saku_start)]

\* The body of for i in 1..(tempo_months.len()); the model's indices are
\* one more than the code's.
ResolveLeapAt(months, i) ==
    IF months[i].leap_month
    THEN [months EXCEPT ![i].month = months[i - 1].month]
    ELSE months

\* tempo_months.iter().filter(|m| jd_date >= m.jd).last(): its index, 0 if none
TargetIndex(months, jd_date) ==
    LET c == {i \in 1..Len(months) : jd_date >= months[i].jd}
    IN  IF c = {} THEN 0 ELSE CHOOSE i \in c : \A j \in c : j <= i

TempoYearLateMonth(y, gregory_month, tempo_month) ==
    IF tempo_month >= 10 THEN y - 1 ELSE y

\* tempo_date.year
TempoYear(y, gregory_month, tempo_month) ==
    IF tempo_month >= 10 /\ tempo_month > gregory_month THEN y - 1 ELSE y

\* ------------------------------------------------------------------------
\* src/tempo.rs: Rokuyo and TempoDate::rokuyo
\* ------------------------------------------------------------------------
from_number_declared(index) ==
    IF index = 0 THEN "Taian"
    ELSE IF index = 1 THEN "Shakku"
    ELSE IF index = 2 THEN "Sensho"
    ELSE IF index = 3 THEN "Tomobiki"
    ELSE IF index = 4 THEN "Sempu"
    ELSE IF index = 5 THEN "Butsumetsu"
    ELSE "Err"

\* Rokuyo::from_number: "Err" is the bail!("Out of rokuyo index").
from_number(index) ==
    IF index = 0 THEN "Sensho"
    ELSE IF index = 1 THEN "Tomobiki"
    ELSE IF index = 2 THEN "Sempu"
    ELSE IF index = 3 THEN "Butsumetsu"
    ELSE IF index = 4 THEN "Taian"
    ELSE IF index = 5 THEN "Shakku"
    ELSE "Err"

\* Rokuyo::to_number
to_number(r) ==
    IF r = "Sensho" THEN 0
    ELSE IF r = "Tomobiki" THEN 1
    ELSE IF r = "Sempu" THEN 2
    ELSE IF r = "Butsumetsu" THEN 3
    ELSE IF r = "Taian" THEN 4
    ELSE 5

\* usize arithmetic of self.month + self.day - 2: a negative difference
\* panics in a debug build and wraps modulo 2^64 in a release build; both
\* are "Panic" here, since 2^64 - 1 is no index the model can hold.
rokuyo(t) ==
    IF t.month + t.day < 2 THEN "Panic"
    ELSE LET r == from_number((t.month + t.day - 2) % 6)
         IN  IF r = "Err" THEN "Panic" ELSE r

\* ------------------------------------------------------------------------
\* Initial values of the parts of the state a specification does not use
\* ------------------------------------------------------------------------
FirstDate == [year |-> 2023, month |-> 12, day |-> 1]
NoSekki == [jd |-> 0, l |-> 0]
NoDateTime == [year |-> 0, month |-> 0, day |-> 0,
               hour |-> 0, minute |-> 0, second |-> 0]
NoJd == [mjd |-> 0, frac |-> 0]

CalIdle ==
    /\ pc = "off"
    /\ jst_date = FirstDate
    /\ moon_phase = 0
    /\ sekkis = <<>>
    /\ last_sekki = NoSekki
    /\ sakus = <<>>
    /\ last_saku = 0
    /\ chukis = <<>>
    /\ tempo_months = <<>>
    /\ idx = 0
    /\ tempo_date = DefaultTempoDate

LocIdle ==
    /\ lc = "idle"
    /\ lc_jd_now = 0
    /\ lc_jd = 0
    /\ lc_delta_t = 0
    /\ lc_iter_count = 0
    /\ lc_l_sun0 = 0
    /\ lc_passes = 0
    /\ lc_restarts = 0
    /\ lc_stepped = 0

JulianIdle ==
    /\ jl_pc = "off"
    /\ jl_in = NoDateTime
    /\ jl_jd = NoJd
    /\ jl_out = NoDateTime

RokuyoIdle ==
    /\ rk_pc = "off"
    /\ rk_a = DefaultTempoDate
    /\ rk_b = DefaultTempoDate
    /\ rk_ra = "None"
    /\ rk_rb = "None"

\* ------------------------------------------------------------------------
\* The locators, one pass of the loop per step
\* ------------------------------------------------------------------------
\* Entry of calculate_leading_24sekki(jd0)
CallSekki(jd0) ==
    /\ lc' = "sekki"
    /\ lc_jd_now' = jd0
    /\ lc_jd' = jd0
    /\ lc_delta_t' = 1440
    /\ lc_l_sun0' = 15000 * (sun_longitude(jd0) \div 15000)
    /\ lc_iter_count' = 0
    /\ lc_passes' = 0
    /\ lc_restarts' = 0
    /\ lc_stepped' = jd0

\* Entry of calculate_leading_saku(jd0)
CallSaku(jd0) ==
    /\ lc' = "saku"
    /\ lc_jd_now' = jd0
    /\ lc_jd' = jd0
    /\ lc_delta_t' = 1440
    /\ lc_l_sun0' = 0
    /\ lc_iter_count' = 0
    /\ lc_passes' = 0
    /\ lc_restarts' = 0
    /\ lc_stepped' = jd0

\* The locator has left its loop.
SekkiFound == lc = "sekki" /\ ~NotConverged(lc_delta_t)
SakuFound == lc = "saku" /\ ~NotConverged(lc_delta_t)

\* return of a locator to from_gregory_date
LocReturn ==
    /\ lc' = "idle"
    /\ UNCHANGED <<lc_jd_now, lc_jd, lc_delta_t, lc_iter_count, lc_l_sun0, lc_passes, lc_restarts, lc_stepped>>

\* The state the pass s of calculate_leading_saku leaves.
SakuPass(s) ==
    /\ lc_jd' = s.jd
    /\ lc_delta_t' = s.delta_t
    /\ lc_iter_count' = s.iter_count
    /\ lc_stepped' = s.stepped
    /\ lc_passes' = lc_passes + 1
    /\ lc_restarts' = IF s.restarted THEN lc_restarts + 1 ELSE lc_restarts
    /\ UNCHANGED <<lc_jd_now, lc_l_sun0>>

\* while delta_t.abs() > (1.0 / 86400.0) { ... } of calculate_leading_24sekki
SekkiIterate ==
    /\ lc = "sekki"
    /\ NotConverged(lc_delta_t)
    /\ lc_passes < MaxSekkiPasses
    /\ LET s == SekkiBody(lc_jd, lc_l_sun0, sun_longitude(lc_jd))
       IN  /\ lc_jd' = s.jd
           /\ lc_delta_t' = s.delta_t
           /\ lc_stepped' = s.jd
    /\ lc_passes' = lc_passes + 1
    /\ UNCHANGED <<lc, lc_jd_now, lc_iter_count, lc_l_sun0, lc_restarts>>
    /\ UNCHANGED <<cal_vars, jl_vars, rk_vars>>

\* while delta_t.abs() > (1.0 / 86400.0) { ... } of calculate_leading_saku,
\* called by from_gregory_date; bail! ends the conversion
SakuIterate ==
    /\ lc = "saku"
    /\ pc \in {"saku_start", "saku_back", "saku_forward", "saku_retry"}
    /\ NotConverged(lc_delta_t)
    /\ LET s == SakuBody(lc_jd_now, lc_jd, lc_iter_count,
                         sun_longitude(lc_jd), moon_longitude(lc_jd, moon_phase))
       IN  /\ SakuPass(s)
           /\ lc' = IF s.failed THEN "idle" ELSE lc
           /\ pc' = IF s.failed THEN "error" ELSE pc
    /\ UNCHANGED <<jst_date, moon_phase, sekkis, last_sekki, sakus, last_saku,
                   chukis, tempo_months, idx, tempo_date>>
    /\ UNCHANGED <<jl_vars, rk_vars>>

\* ------------------------------------------------------------------------
\* TempoDate::from_gregory_date, one step per locator call, locator return,
\* loop exit and assembly stage
\* ------------------------------------------------------------------------
InputDates ==
    {dt \in [year : 2023..2026, month : 1..12, day : 1..31] :
        /\ dt.day <= DaysInMonth(dt.year, dt.month)
        /\ JdOfMidnight(dt) >= JdOfMidnight(FirstDate)
        /\ JdOfMidnight(dt) < JdOfMidnight(FirstDate) + NumDays * 1440}

Init ==
    /\ pc = "start"
    /\ jst_date \in InputDates
    /\ moon_phase \in 0..(NumPhases - 1)
    /\ sekkis = <<>>
    /\ last_sekki = NoSekki
    /\ sakus = <<>>
    /\ last_saku = 0
    /\ chukis = <<>>
    /\ tempo_months = <<>>
    /\ idx = 0
    /\ tempo_date = DefaultTempoDate
    /\ LocIdle
    /\ JulianIdle
    /\ RokuyoIdle

\* 1-a: calculate_leading_24sekki(jd)
SekkiStart ==
    /\ pc = "start"
    /\ lc = "idle"
    /\ CallSekki(InputJd(jst_date))
    /\ UNCHANGED <<cal_vars, jl_vars, rk_vars>>

\* 1-a: sekkis.push(last_sekki)
SekkiStartReturn ==
    /\ pc = "start"
    /\ SekkiFound
    /\ sekkis' = <<[jd |-> lc_jd, l |-> lc_l_sun0]>>
    /\ last_sekki' = [jd |-> lc_jd, l |-> lc_l_sun0]
    /\ pc' = "sekki_back"
    /\ LocReturn
    /\ UNCHANGED <<jst_date, moon_phase, sakus, last_saku, chukis, tempo_months, idx, tempo_date>>
    /\ UNCHANGED <<jl_vars, rk_vars>>

\* 1-b: the loop test, then the call of the body or the exit to 1-c
SekkiBack ==
    /\ pc = "sekki_back"
    /\ lc = "idle"
    /\ IF SekkiIndex(last_sekki) # 18
       THEN /\ Len(sekkis) < MaxSekkis
            /\ CallSekki(PrevSekkiGuess(last_sekki))
            /\ UNCHANGED <<pc, last_sekki>>
       ELSE /\ last_sekki' = sekkis[Len(sekkis)]
            /\ pc' = "sekki_forward"
            /\ UNCHANGED loc_vars
    /\ UNCHANGED <<jst_date, moon_phase, sekkis, sakus, last_saku, chukis, tempo_months, idx, tempo_date>>
    /\ UNCHANGED <<jl_vars, rk_vars>>

\* 1-b: sekkis.insert(0, prev_sekki)
SekkiBackReturn ==
    /\ pc = "sekki_back"
    /\ SekkiFound
    /\ sekkis' = <<[jd |-> lc_jd, l |-> lc_l_sun0]>> \o sekkis
    /\ last_sekki' = [jd |-> lc_jd, l |-> lc_l_sun0]
    /\ LocReturn
    /\ UNCHANGED <<pc, jst_date, moon_phase, sakus, last_saku, chukis, tempo_months, idx, tempo_date>>
    /\ UNCHANGED <<jl_vars, rk_vars>>

\* 1-c: the loop test, then the call of the body or the exit to 2
SekkiForward ==
    /\ pc = "sekki_forward"
    /\ lc = "idle"
    /\ IF SekkiIndex(last_sekki) # 22
       THEN /\ Len(sekkis) < MaxSekkis
            /\ CallSekki(NextSekkiGuess(last_sekki))
            /\ UNCHANGED pc
       ELSE /\ pc' = "saku_start"
            /\ UNCHANGED loc_vars
    /\ UNCHANGED <<jst_date, moon_phase, sekkis, last_sekki, sakus, last_saku,
                   chukis, tempo_months, idx, tempo_date>>
    /\ UNCHANGED <<jl_vars, rk_vars>>

\* 1-c: sekkis.push(next_sekki)
SekkiForwardReturn ==
    /\ pc = "sekki_forward"
    /\ SekkiFound
    /\ sekkis' = Append(sekkis, [jd |-> lc_jd, l |-> lc_l_sun0])
    /\ last_sekki' = [jd |-> lc_jd, l |-> lc_l_sun0]
    /\ LocReturn
    /\ UNCHANGED <<pc, jst_date, moon_phase, sakus, last_saku, chukis, tempo_months, idx, tempo_date>>
    /\ UNCHANGED <<jl_vars, rk_vars>>

\* 2-a: calculate_leading_saku(jd)?
SakuStart ==
    /\ pc = "saku_start"
    /\ lc = "idle"
    /\ CallSaku(InputJd(jst_date))
    /\ UNCHANGED <<cal_vars, jl_vars, rk_vars>>

\* 2-a: sakus.push(last_saku)
SakuStartReturn ==
    /\ pc = "saku_start"
    /\ SakuFound
    /\ sakus' = <<lc_jd>>
    /\ last_saku' = lc_jd
    /\ pc' = "saku_back"
    /\ LocReturn
    /\ UNCHANGED <<jst_date, moon_phase, sekkis, last_sekki, chukis, tempo_months, idx, tempo_date>>
    /\ UNCHANGED <<jl_vars, rk_vars>>

\* 2-b: the loop test, then the call of the body or the exit to 2-c
SakuBack ==
    /\ pc = "saku_back"
    /\ lc = "idle"
    /\ IF last_saku > sekkis[1].jd
       THEN /\ Len(sakus) < MaxSakus
            /\ CallSaku(last_saku - 27 * 1440)
            /\ UNCHANGED <<pc, last_saku>>
       ELSE /\ last_saku' = sakus[Len(sakus)]
            /\ pc' = "saku_forward"
            /\ UNCHANGED loc_vars
    /\ UNCHANGED <<jst_date, moon_phase, sekkis, last_sekki, sakus, chukis, tempo_months, idx, tempo_date>>
    /\ UNCHANGED <<jl_vars, rk_vars>>

\* 2-b: sakus.insert(0, prev_saku)
SakuBackReturn ==
    /\ pc = "saku_back"
    /\ SakuFound
    /\ sakus' = <<lc_jd>> \o sakus
    /\ last_saku' = lc_jd
    /\ LocReturn
    /\ UNCHANGED <<pc, jst_date, moon_phase, sekkis, last_sekki, chukis, tempo_months, idx, tempo_date>>
    /\ UNCHANGED <<jl_vars, rk_vars>>

\* 2-c: the loop test, then the call of the body or the exit to 3
SakuForward ==
    /\ pc = "saku_forward"
    /\ lc = "idle"
    /\ IF last_saku < sekkis[Len(sekkis)].jd
       THEN /\ Len(sakus) < MaxSakus
            /\ CallSaku(last_saku + 30 * 1440)
            /\ UNCHANGED pc
       ELSE /\ pc' = "assemble"
            /\ UNCHANGED loc_vars
    /\ UNCHANGED <<jst_date, moon_phase, sekkis, last_sekki, sakus, last_saku,
                   chukis, tempo_months, idx, tempo_date>>
    /\ UNCHANGED <<jl_vars, rk_vars>>

\* (next_saku - last_saku).abs() < 26.0
TooClose(next_saku, last) == Abs(next_saku - last) < 26 * 1440

\* 2-c: the second call when the first landed on the same conjunction, else
\* sakus.push(next_saku); the second call's result is pushed as it is
SakuForwardReturn ==
    /\ pc \in {"saku_forward", "saku_retry"}
    /\ SakuFound
    /\ IF pc = "saku_forward" /\ TooClose(lc_jd, last_saku)
       THEN /\ CallSaku(last_saku + 35 * 1440)
            /\ pc' = "saku_retry"
            /\ UNCHANGED <<sakus, last_saku>>
       ELSE /\ sakus' = Append(sakus, lc_jd)
            /\ last_saku' = lc_jd
            /\ pc' = "saku_forward"
            /\ LocReturn
    /\ UNCHANGED <<jst_date, moon_phase, sekkis, last_sekki, chukis, tempo_months, idx, tempo_date>>
    /\ UNCHANGED <<jl_vars, rk_vars>>

\* 3: chukis and vec![TempoDate::default(); sakus.len() - 1]
CollectChukis ==
    /\ pc = "assemble"
    /\ chukis' = Chukis(sekkis)
    /\ tempo_months' = [i \in 1..(Len(sakus) - 1) |-> DefaultTempoDate]
    /\ idx' = 1
    /\ pc' = "months"
    /\ UNCHANGED <<jst_date, moon_phase, sekkis, last_sekki, sakus, last_saku, tempo_date>>
    /\ UNCHANGED <<loc_vars, jl_vars, rk_vars>>

\* 3: one pass of the loop over sakus.windows(2).zip(&mut tempo_months), or
\* its exit
FillMonth ==
    /\ pc = "months"
    /\ IF idx <= Len(tempo_months)
       THEN /\ tempo_months' =
                  [tempo_months EXCEPT
                      ![idx] = TempoMonthOf(sakus[idx], sakus[idx + 1], chukis)]
            /\ idx' = idx + 1
            /\ UNCHANGED pc
       ELSE /\ idx' = 2
            /\ pc' = "leap"
            /\ UNCHANGED tempo_months
    /\ UNCHANGED <<jst_date, moon_phase, sekkis, last_sekki, sakus, last_saku,
                   chukis, tempo_date>>
    /\ UNCHANGED <<loc_vars, jl_vars, rk_vars>>

\* One pass of the loop for i in 1..(tempo_months.len()), or its exit
LeapSweep ==
    /\ pc = "leap"
    /\ IF idx <= Len(tempo_months)
       THEN /\ tempo_months' = ResolveLeapAt(tempo_months, idx)
            /\ idx' = idx + 1
            /\ UNCHANGED pc
       ELSE /\ pc' = "select"
            /\ UNCHANGED <<tempo_months, idx>>
    /\ UNCHANGED <<jst_date, moon_phase, sekkis, last_sekki, sakus, last_saku,
                   chukis, tempo_date>>
    /\ UNCHANGED <<loc_vars, jl_vars, rk_vars>>

\* The target month, the day and the year; "panic" is expect("Should be found")
SelectTarget ==
    /\ pc = "select"
    /\ LET jd_date == InputJdDate(jst_date)
           t == TargetIndex(tempo_months, jd_date)
       IN  IF t = 0
           THEN /\ pc' = "panic"
                /\ UNCHANGED tempo_date
           ELSE /\ tempo_date' =
                      [tempo_months[t] EXCEPT
                          !.day = (jd_date - tempo_months[t].jd) \div 1440 + 1,
                          !.year = TempoYear(jst_date.year, jst_date.month,
                                             tempo_months[t].month)]
                /\ pc' = "done"
    /\ UNCHANGED <<jst_date, moon_phase, sekkis, last_sekki, sakus, last_saku,
                   chukis, tempo_months, idx>>
    /\ UNCHANGED <<loc_vars, jl_vars, rk_vars>>

Next ==
    \/ SekkiStart
    \/ SekkiStartReturn
    \/ SekkiBack
    \/ SekkiBackReturn
    \/ SekkiForward
    \/ SekkiForwardReturn
    \/ SekkiIterate
    \/ SakuStart
    \/ SakuStartReturn
    \/ SakuBack
    \/ SakuBackReturn
    \/ SakuForward
    \/ SakuForwardReturn
    \/ SakuIterate
    \/ CollectChukis
    \/ FillMonth
    \/ LeapSweep
    \/ SelectTarget

Spec == Init /\ [][Next]_vars

\* Stage 1 of from_gregory_date alone (the walks over the solar terms, which
\* do not read the Moon's longitude), run to its end: no step of it is
\* postponed forever.
SekkiInit == Init /\ moon_phase = 0

SekkiNext ==
    \/ SekkiStart
    \/ SekkiStartReturn
    \/ SekkiBack
    \/ SekkiBackReturn
    \/ SekkiForward
    \/ SekkiForwardReturn
    \/ SekkiIterate

SekkiSpec == SekkiInit /\ [][SekkiNext]_vars /\ WF_vars(SekkiNext)

\* ------------------------------------------------------------------------
\* calculate_leading_saku against an arbitrary ephemeris: every pass reads
\* some pair of longitudes <<l_sun, l_moon>>
\* ------------------------------------------------------------------------
ProbeGuesses == {86400000}

ProbeLongitudes ==
    { <<100000, 100000>>,    \* conjunction: no correction
      <<100000, 110000>>,    \* the Moon 10 degrees ahead
      <<110000, 100000>>,    \* the Moon 10 degrees behind
      <<10000, 350000>>,     \* the Sun past 0 degrees, the Moon before it
      <<100000, 149991>> }   \* the Moon more than 40 degrees ahead

SakuInit ==
    /\ pc = "probe"
    /\ jst_date = FirstDate
    /\ moon_phase = 0
    /\ sekkis = <<>>
    /\ last_sekki = NoSekki
    /\ sakus = <<>>
    /\ last_saku = 0
    /\ chukis = <<>>
    /\ tempo_months = <<>>
    /\ idx = 0
    /\ tempo_date = DefaultTempoDate
    /\ lc = "saku"
    /\ lc_jd_now \in ProbeGuesses
    /\ lc_jd = lc_jd_now
    /\ lc_delta_t = 1440
    /\ lc_iter_count = 0
    /\ lc_l_sun0 = 0
    /\ lc_passes = 0
    /\ lc_restarts = 0
    /\ lc_stepped = lc_jd_now
    /\ JulianIdle
    /\ RokuyoIdle

\* One pass of the loop; bail! gives Err
SakuProbe ==
    /\ pc = "probe"
    /\ lc = "saku"
    /\ NotConverged(lc_delta_t)
    /\ \E l \in ProbeLongitudes :
          LET s == SakuBody(lc_jd_now, lc_jd, lc_iter_count, l[1], l[2])
          IN  /\ SakuPass(s)
              /\ pc' = IF s.failed THEN "probe_err" ELSE pc
    /\ UNCHANGED <<lc, jst_date, moon_phase, sekkis, last_sekki, sakus, last_saku,
                   chukis, tempo_months, idx, tempo_date>>
    /\ UNCHANGED <<jl_vars, rk_vars>>

\* Ok(jd)
SakuProbeReturn ==
    /\ pc = "probe"
    /\ SakuFound
    /\ pc' = "probe_ok"
    /\ last_saku' = lc_jd
    /\ UNCHANGED <<jst_date, moon_phase, sekkis, last_sekki, sakus,
                   chukis, tempo_months, idx, tempo_date>>
    /\ UNCHANGED <<loc_vars, jl_vars, rk_vars>>

SakuNext == (SakuProbe \/ SakuProbeReturn)

SpecSaku == SakuInit /\ [][SakuNext]_vars

\* ------------------------------------------------------------------------
\* Round trip of the Julian Date conversions
\* ------------------------------------------------------------------------
JulianYears == {c + k : c \in {1900, 2000, 2023, 2024}, k \in 0..YearSpan}

SampleDays(y, m) ==
    (1..MaxSampleDay) \cup {DaysInMonth(y, m) - 1, DaysInMonth(y, m)}

JulianInputs ==
    {[year |-> y, month |-> m, day |-> d,
      hour |-> h, minute |-> mi, second |-> s] :
        y \in JulianYears, m \in {1, 2, 3, 12}, d \in 1..31,
        h \in {0, 12, 23}, mi \in {0, 59}, s \in {0, 1, 2, 59}}

JulianInit ==
    /\ CalIdle
    /\ LocIdle
    /\ RokuyoIdle
    /\ jl_pc = "in"
    /\ jl_in \in {dt \in JulianInputs : dt.day \in SampleDays(dt.year, dt.month)}
    /\ jl_jd = NoJd
    /\ jl_out = NoDateTime

ToJulian ==
    /\ jl_pc = "in"
    /\ jl_jd' = to_julian_date(jl_in)
    /\ jl_pc' = "lc_jd"
    /\ UNCHANGED <<jl_in, jl_out>>
    /\ UNCHANGED <<cal_vars, loc_vars, rk_vars>>

FromJulian ==
    /\ jl_pc = "lc_jd"
    /\ jl_out' = from_julian_date(jl_jd)
    /\ jl_pc' = "out"
    /\ UNCHANGED <<jl_in, jl_jd>>
    /\ UNCHANGED <<cal_vars, loc_vars, rk_vars>>

JulianNext == (ToJulian \/ FromJulian)

SpecJulian == JulianInit /\ [][JulianNext]_vars

\* ------------------------------------------------------------------------
\* rokuyo() of a Tempo date, then of a second one that differs from it in
\* one field
\* ------------------------------------------------------------------------
TempoInputs ==
    [year : {1, 2023}, leap_month : BOOLEAN, month : 1..12,
     day : 1..MaxTempoDay, lc_jd : {0, 86400000}]

\* The Tempo dates that differ from t in the year, the leap flag or the jd
\* only, and t's next day.
Variants(t) ==
    { [t EXCEPT !.year = 2024 - t.year],
      [t EXCEPT !.leap_month = ~t.leap_month],
      [t EXCEPT !.jd = 86400000 - t.jd],
      [t EXCEPT !.day = t.day + 1] }

RokuyoInit ==
    /\ CalIdle
    /\ LocIdle
    /\ JulianIdle
    /\ rk_pc = "in"
    /\ rk_a \in TempoInputs
    /\ rk_b = rk_a
    /\ rk_ra = "None"
    /\ rk_rb = "None"

RokuyoFirst ==
    /\ rk_pc = "in"
    /\ rk_ra' = rokuyo(rk_a)
    /\ rk_b' \in Variants(rk_a)
    /\ rk_pc' = "second"
    /\ UNCHANGED <<rk_a, rk_rb>>
    /\ UNCHANGED <<cal_vars, loc_vars, jl_vars>>

RokuyoSecond ==
    /\ rk_pc = "second"
    /\ rk_rb' = rokuyo(rk_b)
    /\ rk_pc' = "out"
    /\ UNCHANGED <<rk_a, rk_b, rk_ra>>
    /\ UNCHANGED <<cal_vars, loc_vars, jl_vars>>

RokuyoNext == (RokuyoFirst \/ RokuyoSecond)

SpecRokuyo == RokuyoInit /\ [][RokuyoNext]_vars

\* ------------------------------------------------------------------------
\* Properties of from_gregory_date
\* ------------------------------------------------------------------------
Returned == pc = "done"

\* The day number of the target day (jd_date).
TargetDay == InputJdDate(jst_date) \div 1440

\* Index of the month the code selects.
Selected == TargetIndex(tempo_months, InputJdDate(jst_date))

\* Days from the day of the conjunction starting month i to the day of the
\* next conjunction.
SpanOfMonth(i) == JstDay(sakus[i + 1]) - JstDay(sakus[i])

NonLeapCount == Cardinality({i \in 1..Len(tempo_months) : ~tempo_months[i].leap_month})
LeapCount == Cardinality({i \in 1..Len(tempo_months) : tempo_months[i].leap_month})

\* C1: the day of the returned Tempo date is >= 1 and less than the span in
\* days of its Lunar Month.
DayWithinSpan ==
    Returned => /\ tempo_date.day >= 1
                /\ tempo_date.day < SpanOfMonth(Selected)

\* C2: the returned month is in 1..12, and every leap month of the assembled
\* sequence carries the number of its immediate predecessor, none keeping
\* the unresolved number 0, the first month of the sequence included.
LeapMonthsResolved ==
    Returned =>
        /\ tempo_date.month \in 1..12
        /\ \A i \in 1..Len(tempo_months) :
              /\ tempo_months[i].month \in 1..12
              /\ (tempo_months[i].leap_month /\ i > 1)
                    => tempo_months[i].month = tempo_months[i - 1].month

\* C4: the returned year is the Gregorian year of the input minus 1 exactly
\* when the resolved Tempo month is >= 10 and greater than the Gregorian
\* month of the input; a date of Gregorian month 1 in Tempo month 12 gets the
\* previous year.
YearBoundaryRule ==
    Returned =>
        /\ (tempo_date.year = jst_date.year - 1)
              <=> (tempo_date.month >= 10 /\ tempo_date.month > jst_date.month)
        /\ tempo_date.year \in {jst_date.year - 1, jst_date.year}
        /\ (jst_date.month = 1 /\ tempo_date.month = 12)
              => tempo_date.year = jst_date.year - 1

YearBoundaryWitness ==
    /\ Returned
    /\ jst_date.month = 1
    /\ tempo_date.month = 12
    /\ tempo_date.year = jst_date.year - 1

ConjunctionsCoverTarget ==
    Returned =>
        /\ JstDay(sakus[1]) <= TargetDay
        /\ TargetDay < JstDay(sakus[Len(sakus)])
        /\ JstDay(sakus[Selected]) <= TargetDay
        /\ TargetDay < JstDay(sakus[Selected + 1])

\* C10: both walks over the solar terms terminate; the collected terms are
\* strictly increasing in JD, each bucket is the previous one's plus 15
\* degrees modulo 360, the first is the winter solstice that most recently
\* precedes the input JD and the last has bucket 330.
InSekkiWalk == pc \in {"start", "sekki_back", "sekki_forward"}

SekkisInOrder ==
    \A i \in 1..(Len(sekkis) - 1) :
        /\ sekkis[i].jd < sekkis[i + 1].jd
        /\ sekkis[i + 1].l = (sekkis[i].l + 15000) % 360000

SekkiWalkResult ==
    /\ SekkisInOrder
    /\ (pc \notin {"start", "sekki_back"}) =>
          /\ sekkis[1].l = 270000
          /\ sekkis[1].jd <= InputJd(jst_date)
          /\ InputJd(jst_date) - sekkis[1].jd < 366 * 1440
    /\ ~InSekkiWalk => sekkis[Len(sekkis)].l = 330000

SekkiWalks == []SekkiWalkResult /\ <>(~InSekkiWalk)

SekkiWalksWitness ==
    /\ pc = "saku_start"
    /\ Len(sekkis) = 29

\* ------------------------------------------------------------------------
\* Properties of the Julian Date conversions
\* ------------------------------------------------------------------------
\* C3: from_julian_date(to_julian_date(d)) = d for every date-time d at
\* whole-second resolution.
RoundTripExact == jl_pc = "out" => jl_out = jl_in

\* ------------------------------------------------------------------------
\* Properties of calculate_leading_saku
\* ------------------------------------------------------------------------
\* C6: no more than 30 refinement passes are made, at most one restart
\* occurs, the restart occurs only after 15 passes without convergence, and
\* the run fails only after 30 passes without convergence.
SakuBudgetThirty ==
    /\ lc_passes <= 30
    /\ lc_restarts <= 1
    /\ (lc_restarts = 1 => lc_passes >= 16)
    /\ (pc = "probe_err" => lc_passes >= 30)

\* C6 as amended: no more than 31 refinement passes are made (iter_count
\* itself never exceeds 30): the run fails in its 31st pass, after that
\* pass's refinement step; at most one restart occurs, in the 16th pass.
SakuBudget ==
    /\ lc_passes <= 31
    /\ lc_iter_count <= 30
    /\ lc_restarts <= 1
    /\ (lc_restarts = 1 => lc_passes >= 16)
    /\ (pc = "probe_err" => (lc_passes = 31 /\ lc_restarts = 1))

SakuBudgetWitness ==
    /\ pc = "probe_err"
    /\ lc_passes = 31
    /\ lc_restarts = 1

\* C7: the JD returned is the iterate the last refinement step reached, whose
\* correction was below one second, also when that step is the one of the
\* restart: jd_now - 26 days is never returned.
ReturnsLastIterate ==
    pc = "probe_ok" =>
        /\ ~NotConverged(lc_delta_t)
        /\ last_saku = lc_stepped

\* ------------------------------------------------------------------------
\* Properties of rokuyo()
\* ------------------------------------------------------------------------
RokuyoOrder == <<"Sensho", "Tomobiki", "Sempu", "Butsumetsu", "Taian", "Shakku">>

\* C5: rokuyo() returns the Rokuyo of index (month + day - 2) mod 6 in the
\* order Sensho, Tomobiki, Sempu, Butsumetsu, Taian, Shakku; the result
\* depends on month and day only, and the next day has the next index
\* modulo 6.
RokuyoCycle ==
    rk_pc = "out" =>
        /\ rk_ra = RokuyoOrder[((rk_a.month + rk_a.day - 2) % 6) + 1]
        /\ to_number(rk_ra) = (rk_a.month + rk_a.day - 2) % 6
        /\ (rk_b.month = rk_a.month /\ rk_b.day = rk_a.day) => rk_rb = rk_ra
        /\ (rk_b.month = rk_a.month /\ rk_b.day = rk_a.day + 1)
              => /\ rk_rb \in {RokuyoOrder[i] : i \in 1..6}
                 /\ to_number(rk_rb) = (to_number(rk_ra) + 1) % 6

RokuyoCycleWitness ==
    /\ rk_pc = "out"
    /\ rk_b.day = rk_a.day + 1
    /\ rk_ra = "Shakku"
    /\ rk_rb = "Sensho"

====
